---- MODULE Spec2Model ----
(***************************************************************************)
(* Chore Tracker API: the rate limiter, the error envelope, the request    *)
(* pipeline assembled in app/main.py and the domain services behind the    *)
(* routes of app/api.py.                                                   *)
(*                                                                         *)
(* Time is the value of time.time() / datetime.utcnow() in whole seconds.  *)
(***************************************************************************)
EXTENDS Integers, Sequences, FiniteSets, TLC

VARIABLES
    max_requests,     \* RateLimiter.max_requests
    window_seconds,   \* RateLimiter.window_seconds
    block_duration,   \* RateLimiter.block_duration
    requests,         \* RateLimiter.requests: client id -> list of timestamps
    blocked,          \* RateLimiter.blocked: dict client id -> block_until
    testing,          \* os.getenv("TESTING") == "true"
    environment,      \* os.getenv("ENVIRONMENT")
    users,            \* table users: id -> row
    chores,           \* table chores: id -> row
    assignments,      \* table assignments: id -> row
    now,              \* the clock
    log,              \* history: the is_allowed calls made so far, in order
    req,              \* the last request: its path, correlation header, fault
    resp,             \* the response sent to the last request
    threads           \* the is_allowed calls in progress: thread -> its frame

limiterVars == <<max_requests, window_seconds, block_duration, requests, blocked>>
dbVars == <<users, chores, assignments>>
vars == <<max_requests, window_seconds, block_duration, requests, blocked,
          testing, environment, users, chores, assignments, now, log, req, resp,
          threads>>

(***************************************************************************)
(* Bounds of the model.                                                    *)
(***************************************************************************)
MaxCfg == 2        \* each limiter setting ranges over 1..MaxCfg
MaxTime == 3       \* the clock runs over 0..MaxTime
MaxCalls == 4      \* at most this many is_allowed calls in a behaviour

\* the threads that may be inside RateLimiter.is_allowed, and the frame of a
\* thread that is not
Threads == {"A", "B"}
Idle == [pc |-> "idle", client_id |-> "", current_time |-> 0, request_count |-> 0]

\* str(uuid.uuid4()): a fresh value at every draw; k numbers the draws made
\* while one request is served
uuid4(k) == "0000-fresh-" \o ToString(k)

\* client ids: connection addresses, and the bucket of unidentified clients
ClientIds == {"10.0.0.1", "unknown"}

\* what a request says about its origin: the parts of X-Forwarded-For split
\* at "," (none when the header is absent) and request.client.host
Origins ==
    { [forwarded_for |-> <<>>, host |-> <<"10.0.0.1">>],
      [forwarded_for |-> <<>>, host |-> <<>>],
      [forwarded_for |-> <<" 10.0.0.1", "10.9.9.9">>, host |-> <<>>] }

strip(s) == IF s = " 10.0.0.1" THEN "10.0.0.1" ELSE s

get_client_id(origin) ==
    IF origin.forwarded_for # <<>>
    THEN strip(origin.forwarded_for[1])
    ELSE IF origin.host # <<>> THEN origin.host[1] ELSE "unknown"

(***************************************************************************)
(* Error envelope                                                          *)
(***************************************************************************)
ERROR_TYPES ==
    [ validation_error |-> "https://api.choretracker.com/errors/validation-error",
      authentication_error |-> "https://api.choretracker.com/errors/authentication-error",
      authorization_error |-> "https://api.choretracker.com/errors/authorization-error",
      not_found_error |-> "https://api.choretracker.com/errors/not-found-error",
      internal_error |-> "https://api.choretracker.com/errors/internal-error",
      rate_limit_error |-> "https://api.choretracker.com/errors/rate-limit-error" ]

EnvelopeFields ==
    {"type", "title", "status", "detail", "instance", "correlation_id", "timestamp"}

\* ErrorResponse(...).dict(): timestamp is utcnow() at construction
ErrorResponse(type, title, status, detail, instance, correlation_id) ==
    [ type |-> type, title |-> title, status |-> status, detail |-> detail,
      instance |-> instance, correlation_id |-> correlation_id,
      timestamp |-> "T" \o ToString(now) ]

\* create_error_response: correlation_id is a sequence, empty for None; u is
\* the value uuid4() would give
create_error_response(url, error_type, title, detail, status_code, correlation_id, u) ==
    LET cid == IF correlation_id # <<>> /\ correlation_id[1] # ""
               THEN correlation_id[1] ELSE u
    IN [ status_code |-> status_code,
         content |-> ErrorResponse(error_type, title, status_code, detail, url, cid),
         headers |-> [h \in {"X-Correlation-ID"} |-> cid] ]

\* JSONResponse(status_code, content, headers); handled: whether the route
\* handler ran, admission: whether RateLimiter.is_allowed was consulted
Response(status_code, content, headers, handled, admission) ==
    [ status |-> status_code, body |-> content, headers |-> headers,
      handled |-> handled, admission |-> admission ]

NoResponse == Response(0, <<>>, <<>>, FALSE, FALSE)

\* a request as the pipeline sees it: inbound is the X-Correlation-ID header
\* (a sequence, empty when absent), payload the JSON body (empty when none),
\* fault the failure the environment injects while it is served
Request(method, path, inbound, payload, fault) ==
    [method |-> method, path |-> path, inbound |-> inbound, payload |-> payload,
     fault |-> fault]

NoRequest == Request("", "", <<>>, <<>>, "none")

\* str(request.url)
Url(path) == "http://testserver" \o path

\* h1 with the entries of h2 added or overwritten
Merge(h1, h2) ==
    [k \in DOMAIN h1 \cup DOMAIN h2 |-> IF k \in DOMAIN h2 THEN h2[k] ELSE h1[k]]

(***************************************************************************)
(* RateLimiter                                                             *)
(***************************************************************************)
\* mutants of _cleanup_old_requests: the cutoff without the window; no purge
cleanup_cutoff_now(rs, current_time) ==
    LET keep(ts) == ts > current_time
    IN SelectSeq(rs, keep)

cleanup_keeps_all(rs, current_time) == rs

\* mutant of _cleanup_old_requests: a timestamp exactly window_seconds old stays
cleanup_cutoff_inclusive(rs, current_time) ==
    LET cutoff_time == current_time - window_seconds
        keep(ts) == ts >= cutoff_time
    IN SelectSeq(rs, keep)

cleanup_old_requests(rs, current_time) ==
    LET cutoff_time == current_time - window_seconds
        keep(ts) == ts > cutoff_time
    IN SelectSeq(rs, keep)

\* mutants of is_allowed, one deviation v each: "purge_blocked" purges the
\* window of a blocked client, "extend_blocked" restarts the block on every
\* blocked call, "over_limit" blocks only above max_requests, "all_windows"
\* purges the window of every client, "append_denied" records the call that
\* creates a block
is_allowed_deviating(client_id, current_time, v) ==
    IF client_id \in DOMAIN blocked /\ current_time < blocked[client_id]
    THEN [ allowed |-> FALSE,
           message |-> "Rate limit exceeded. Try again in "
                       \o ToString(blocked[client_id] - current_time) \o " seconds",
           path |-> "try_again",
           requests |-> IF v = "purge_blocked"
                        THEN [requests EXCEPT ![client_id] =
                                 cleanup_old_requests(@, current_time)]
                        ELSE requests,
           blocked |-> IF v = "extend_blocked"
                       THEN [blocked EXCEPT ![client_id] =
                                current_time + block_duration]
                       ELSE blocked ]
    ELSE
      LET blocked1 == [c \in DOMAIN blocked \ {client_id} |-> blocked[c]]
          cleaned == cleanup_old_requests(requests[client_id], current_time)
          requests1 == IF v = "all_windows"
                       THEN [c \in DOMAIN requests |->
                               cleanup_old_requests(requests[c], current_time)]
                       ELSE [requests EXCEPT ![client_id] = cleaned]
          request_count == Len(cleaned)
      IN IF (IF v = "over_limit" THEN request_count > max_requests
                                 ELSE request_count >= max_requests)
         THEN [ allowed |-> FALSE,
                message |-> "Rate limit exceeded. Blocked for "
                            \o ToString(block_duration) \o " seconds",
                path |-> "blocked_for",
                requests |-> IF v = "append_denied"
                             THEN [requests1 EXCEPT ![client_id] =
                                      Append(cleaned, current_time)]
                             ELSE requests1,
                blocked |-> Merge(blocked1, [c \in {client_id} |->
                                              current_time + block_duration]) ]
         ELSE [ allowed |-> TRUE,
                message |-> "None",
                path |-> "admitted",
                requests |-> [requests1 EXCEPT ![client_id] =
                                 Append(cleaned, current_time)],
                blocked |-> blocked1 ]

is_allowed_purging_blocked(client_id, current_time) ==
    is_allowed_deviating(client_id, current_time, "purge_blocked")

is_allowed_extending_block(client_id, current_time) ==
    is_allowed_deviating(client_id, current_time, "extend_blocked")

is_allowed_over_limit(client_id, current_time) ==
    is_allowed_deviating(client_id, current_time, "over_limit")

is_allowed_all_windows(client_id, current_time) ==
    is_allowed_deviating(client_id, current_time, "all_windows")

is_allowed_appending_denied(client_id, current_time) ==
    is_allowed_deviating(client_id, current_time, "append_denied")

\* is_allowed for client_id at clock reading current_time: the result
\* (allowed, message) and the two mappings as the call leaves them
is_allowed(client_id, current_time) ==
    IF client_id \in DOMAIN blocked /\ current_time < blocked[client_id]
    THEN [ allowed |-> FALSE,
           message |-> "Rate limit exceeded. Try again in "
                       \o ToString(blocked[client_id] - current_time) \o " seconds",
           path |-> "try_again",
           requests |-> requests,
           blocked |-> blocked ]
    ELSE
      LET blocked1 == [c \in DOMAIN blocked \ {client_id} |-> blocked[c]]
          cleaned == cleanup_old_requests(requests[client_id], current_time)
          requests1 == [requests EXCEPT ![client_id] = cleaned]
          request_count == Len(cleaned)
      IN IF request_count >= max_requests
         THEN [ allowed |-> FALSE,
                message |-> "Rate limit exceeded. Blocked for "
                            \o ToString(block_duration) \o " seconds",
                path |-> "blocked_for",
                requests |-> requests1,
                blocked |-> Merge(blocked1, [c \in {client_id} |->
                                              current_time + block_duration]) ]
         ELSE [ allowed |-> TRUE,
                message |-> "None",
                path |-> "admitted",
                requests |-> [requests1 EXCEPT ![client_id] =
                                 Append(cleaned, current_time)],
                blocked |-> blocked1 ]

\* the defaults of RATE_LIMIT_MAX_REQUESTS, _WINDOW_SECONDS, _BLOCK_DURATION
DefaultMaxRequests == 100
DefaultWindowSeconds == 60
DefaultBlockDuration == 300

BypassPaths == {"/health", "/docs", "/redoc", "/openapi.json"}

\* what call_next(request) returns under the limiter when the route succeeds
RouteOk == Response(200, [status |-> "ok"], <<>>, TRUE, FALSE)

\* rate_limit_middleware around call_next: the response and the limiter's
\* mappings afterwards; r is the outcome of is_allowed, u the uuid4() value
rate_limit_middleware(path, url, downstream, r, u) ==
    IF testing THEN [resp |-> downstream, called |-> FALSE]
    ELSE IF path \in BypassPaths THEN [resp |-> downstream, called |-> FALSE]
    ELSE IF ~r.allowed
         THEN LET error_response ==
                    create_error_response(url, ERROR_TYPES.rate_limit_error,
                        "Rate Limit Exceeded",
                        IF r.message # "None" /\ r.message # ""
                        THEN r.message ELSE "Too many requests",
                        429, <<>>, u)
              IN [ resp |-> Response(error_response.status_code,
                                     error_response.content,
                                     Merge(error_response.headers,
                                           [h \in {"Retry-After"} |->
                                               ToString(block_duration)]),
                                     FALSE, TRUE),
                   called |-> TRUE ]
         ELSE [resp |-> [downstream EXCEPT !.admission = TRUE], called |-> TRUE]

LimiterPaths == {"/users", "/health", "/healthz", "/docs"}

\* one request through rate_limit_middleware
LimitedRequest(origin, path) ==
    LET client_id == get_client_id(origin)
        r == is_allowed(client_id, now)
    IN   LET m == rate_limit_middleware(path, Url(path), RouteOk, r, uuid4(1))
         IN /\ m.called => Len(log) < MaxCalls
            /\ resp' = m.resp
            /\ IF m.called
               THEN /\ requests' = r.requests
                    /\ blocked' = r.blocked
                    /\ log' = Append(log, [client |-> client_id, time |-> now,
                                           path |-> r.path])
               ELSE UNCHANGED <<requests, blocked, log>>
            /\ req' = Request("GET", path, <<>>, <<>>, "none")
            /\ UNCHANGED <<max_requests, window_seconds, block_duration, testing,
                           environment, dbVars, now, threads>>

\* time passes between two requests
Tick ==
    /\ now < MaxTime
    /\ now' = now + 1
    /\ req' = NoRequest
    /\ resp' = NoResponse
    /\ UNCHANGED <<limiterVars, testing, environment, dbVars, log, threads>>

InitLimiter ==
    /\ max_requests \in 1..MaxCfg
    /\ window_seconds \in 1..MaxCfg
    /\ block_duration \in 1..MaxCfg
    /\ requests = [c \in ClientIds |-> <<>>]
    /\ blocked = <<>>
    /\ testing \in BOOLEAN
    /\ environment = "development"
    /\ users = <<>>
    /\ chores = <<>>
    /\ assignments = <<>>
    /\ now = 0
    /\ log = <<>>
    /\ req = NoRequest
    /\ resp = NoResponse
    /\ threads = [t \in Threads |-> Idle]

NextLimiter ==
    \/ Tick
    \/ \E origin \in Origins, path \in LimiterPaths : LimitedRequest(origin, path)

SpecLimiter == InitLimiter /\ [][NextLimiter]_vars

(***************************************************************************)
(* Domain: repositories and services                                       *)
(***************************************************************************)
MaxRows == 3          \* rows the three tables may hold together
MaxId == 2            \* the ids requests name run over 1..MaxId

Rows == Cardinality(DOMAIN users) + Cardinality(DOMAIN chores)
           + Cardinality(DOMAIN assignments)

SetMax(S) == CHOOSE x \in S : \A y \in S : y <= x

\* the id the database gives a new row: one past the largest rowid
NextId(table) == IF DOMAIN table = {} THEN 1 ELSE SetMax(DOMAIN table) + 1

Insert(table, row) == Merge(table, [i \in {NextId(table)} |-> row])

\* UserRepository.get_by_email: the ids of the rows with this email
get_by_email(email) == { i \in DOMAIN users : users[i].email = email }

\* a service call ends in a value or in a raised exception
Value(v, table) == [raised |-> "none", value |-> v, table |-> table]
ValueError(text, table) == [raised |-> "ValueError", value |-> text, table |-> table]

\* UserService.create_user
UserService_create_user(name, email) ==
    IF get_by_email(email) # {}
    THEN ValueError("User with this email already exists", users)
    ELSE Value([id |-> NextId(users), name |-> name, email |-> email],
               Insert(users, [name |-> name, email |-> email]))

\* ChoreService.create_chore
ChoreService_create_chore(title, cadence) ==
    IF cadence \notin {"daily", "weekly", "monthly", "yearly"}
    THEN ValueError("Invalid cadence. Must be one of: "
                    \o "['daily', 'weekly', 'monthly', 'yearly']", chores)
    ELSE Value([id |-> NextId(chores), title |-> title, cadence |-> cadence],
               Insert(chores, [title |-> title, cadence |-> cadence]))

\* mutant of AssignmentService.create_assignment: a due date equal to the
\* current time is accepted
AssignmentService_create_assignment_due_now(user_id, chore_id, due_at) ==
    IF user_id \notin DOMAIN users THEN ValueError("User not found", assignments)
    ELSE IF chore_id \notin DOMAIN chores
    THEN ValueError("Chore not found", assignments)
    ELSE IF due_at < now
    THEN ValueError("Due date must be in the future", assignments)
    ELSE LET row == [user_id |-> user_id, chore_id |-> chore_id, due_at |-> due_at,
                     status |-> "pending", completed_at |-> <<>>]
         IN Value(Merge(row, [k \in {"id"} |-> NextId(assignments)]),
                  Insert(assignments, row))

\* AssignmentService.create_assignment; completed_at is a sequence, empty
\* for NULL
AssignmentService_create_assignment(user_id, chore_id, due_at) ==
    IF user_id \notin DOMAIN users THEN ValueError("User not found", assignments)
    ELSE IF chore_id \notin DOMAIN chores
    THEN ValueError("Chore not found", assignments)
    ELSE IF due_at <= now
    THEN ValueError("Due date must be in the future", assignments)
    ELSE LET row == [user_id |-> user_id, chore_id |-> chore_id, due_at |-> due_at,
                     status |-> "pending", completed_at |-> <<>>]
         IN Value(Merge(row, [k \in {"id"} |-> NextId(assignments)]),
                  Insert(assignments, row))

(***************************************************************************)
(* Request schemas (pydantic models of api.py)                             *)
(***************************************************************************)
\* str.lower().strip() on the emails the model sends
lower_strip(s) == IF s = "A@x.io" THEN "a@x.io" ELSE s

\* InputValidator.validate_email on the emails the model sends
validate_email(s) == s \in {"a@x.io", "A@x.io", "b@x.io"}

\* UserCreate: the validated model, or no model when validation fails
UserCreate(payload) ==
    IF ~({"name", "email"} \subseteq DOMAIN payload) THEN <<>>
    ELSE IF payload.name = "" \/ ~validate_email(payload.email) THEN <<>>
    ELSE << [name |-> payload.name, email |-> lower_strip(payload.email)] >>

\* ChoreCreate
ChoreCreate(payload) ==
    IF payload.title = "" THEN <<>>
    ELSE IF payload.cadence \notin {"daily", "weekly", "monthly", "yearly", "once"}
    THEN <<>>
    ELSE << [title |-> payload.title, cadence |-> payload.cadence] >>

\* AssignmentCreate: all three fields are required
AssignmentCreate(payload) ==
    IF ~({"user_id", "chore_id", "due_at"} \subseteq DOMAIN payload) THEN <<>>
    ELSE << payload >>

(***************************************************************************)
(* Routes of api.py: what the endpoint returns or raises, and the tables   *)
(***************************************************************************)
Return(body) == [kind |-> "return", body |-> body, handled |-> TRUE]

HTTPException(status_code, detail) ==
    [kind |-> "HTTPException", status_code |-> status_code, detail |-> detail,
     handled |-> TRUE]

\* SecureHTTPException(...): correlation_id defaults to uuid4(), here u
SecureHTTPException(error_type, title, detail, status_code, u) ==
    [kind |-> "SecureHTTPException", error_type |-> error_type, title |-> title,
     detail |-> detail, status_code |-> status_code, correlation_id |-> u,
     handled |-> TRUE]

\* raised by the framework when the body does not fit the schema: the
\* endpoint is not called
RequestValidationError ==
    [kind |-> "RequestValidationError", handled |-> FALSE]

\* an exception raised outside the endpoint's try block (while the
\* dependencies of the route are set up or torn down)
Unhandled(text) == [kind |-> "Exception", text |-> text, handled |-> FALSE]

\* str(e) of the exception a failing database call raises
DbErrorText == "(sqlite3.OperationalError) database is locked"

Faults == {"none", "db", "escape"}

health == Return([status |-> "ok"])

\* get_user
get_user(user_id, fault) ==
    IF fault = "db" THEN HTTPException(500, DbErrorText)
    ELSE IF user_id \notin DOMAIN users THEN HTTPException(404, "User not found")
    ELSE Return(Merge(users[user_id], [k \in {"id"} |-> user_id]))

\* create_user: the outcome and the users table afterwards
create_user(payload, fault, u) ==
    LET user_data == UserCreate(payload)
    IN IF user_data = <<>> THEN [out |-> RequestValidationError, table |-> users]
       ELSE IF fault = "db"
       THEN [out |-> SecureHTTPException(ERROR_TYPES.internal_error,
                        "Internal Server Error", "Failed to create user", 500, u),
             table |-> users]
       ELSE LET r == UserService_create_user(user_data[1].name, user_data[1].email)
            IN IF r.raised = "ValueError"
               THEN [out |-> SecureHTTPException(ERROR_TYPES.validation_error,
                                "Validation Error", r.value, 400, u),
                     table |-> r.table]
               ELSE [out |-> Return(r.value), table |-> r.table]

\* create_chore
create_chore(payload, fault) ==
    LET chore_data == ChoreCreate(payload)
    IN IF chore_data = <<>> THEN [out |-> RequestValidationError, table |-> chores]
       ELSE IF fault = "db"
       THEN [out |-> HTTPException(500, DbErrorText), table |-> chores]
       ELSE LET r == ChoreService_create_chore(chore_data[1].title,
                                               chore_data[1].cadence)
            IN IF r.raised = "ValueError"
               THEN [out |-> HTTPException(400, r.value), table |-> r.table]
               ELSE [out |-> Return(r.value), table |-> r.table]

\* create_assignment
create_assignment(payload, fault) ==
    LET assignment_data == AssignmentCreate(payload)
    IN IF assignment_data = <<>>
       THEN [out |-> RequestValidationError, table |-> assignments]
       ELSE IF fault = "db"
       THEN [out |-> HTTPException(500, DbErrorText), table |-> assignments]
       ELSE LET r == AssignmentService_create_assignment(
                        assignment_data[1].user_id, assignment_data[1].chore_id,
                        assignment_data[1].due_at)
            IN IF r.raised = "ValueError"
               THEN [out |-> HTTPException(400, r.value), table |-> r.table]
               ELSE [out |-> Return(r.value), table |-> r.table]

(***************************************************************************)
(* The application assembled in main.py                                    *)
(***************************************************************************)
secure_http_exception_handler(url, exc, u) ==
    LET error_response ==
            create_error_response(url, exc.error_type, exc.title, exc.detail,
                                  exc.status_code, <<exc.correlation_id>>, u)
    IN Response(error_response.status_code, error_response.content,
                error_response.headers, exc.handled, FALSE)

\* mutant of http_exception_handler: only 404 has a category of its own
http_exception_handler_only_404(url, exc, u) ==
    LET code == exc.status_code
        error_response ==
            create_error_response(url,
                IF code = 404 THEN ERROR_TYPES.not_found_error
                ELSE ERROR_TYPES.internal_error,
                IF code = 404 THEN "Not Found" ELSE "Internal Server Error",
                exc.detail, code, <<>>, u)
    IN Response(error_response.status_code, error_response.content,
                error_response.headers, exc.handled, FALSE)

http_exception_handler(url, exc, u) ==
    LET code == exc.status_code
        error_type == IF code = 404 THEN ERROR_TYPES.not_found_error
                      ELSE IF code = 401 THEN ERROR_TYPES.authentication_error
                      ELSE IF code = 403 THEN ERROR_TYPES.authorization_error
                      ELSE ERROR_TYPES.internal_error
        title == IF code = 404 THEN "Not Found"
                 ELSE IF code = 401 THEN "Authentication Error"
                 ELSE IF code = 403 THEN "Authorization Error"
                 ELSE "Internal Server Error"
        error_response ==
            create_error_response(url, error_type, title, exc.detail, code, <<>>, u)
    IN Response(error_response.status_code, error_response.content,
                error_response.headers, exc.handled, FALSE)

general_exception_handler(url, exc, u) ==
    LET error_response ==
            create_error_response(url, ERROR_TYPES.internal_error,
                "Internal Server Error", "An unexpected error occurred", 500, <<>>, u)
    IN Response(error_response.status_code, error_response.content,
                error_response.headers, exc.handled, FALSE)

\* no handler is registered for RequestValidationError: the framework's own
\* answers, with the list of errors under "detail"
request_validation_exception_handler(exc) ==
    Response(422, [detail |-> <<"value is not valid">>], <<>>, exc.handled, FALSE)

\* the exception handlers around the router; an exception of another class
\* passes through
ExceptionMiddleware(url, out, u) ==
    IF out.kind = "return" THEN Response(200, out.body, <<>>, out.handled, FALSE)
    ELSE IF out.kind = "SecureHTTPException"
    THEN secure_http_exception_handler(url, out, u)
    ELSE IF out.kind = "HTTPException" THEN http_exception_handler(url, out, u)
    ELSE request_validation_exception_handler(out)

\* mutant of add_correlation_id: the header is never set on the response
add_correlation_id_forgets(inbound, response, u) == response

\* add_correlation_id: headers.get("X-Correlation-ID", str(uuid4()))
add_correlation_id(inbound, response, u) ==
    LET correlation_id == IF inbound # <<>> THEN inbound[1] ELSE u
    IN [response EXCEPT !.headers =
            Merge(@, [h \in {"X-Correlation-ID"} |-> correlation_id])]

\* SecurityHeadersMiddleware.add_security_headers
add_security_headers(response) ==
    LET always ==
          [ h \in {"X-Content-Type-Options", "X-Frame-Options", "X-XSS-Protection",
                   "Referrer-Policy", "Content-Security-Policy"} |->
              CASE h = "X-Content-Type-Options" -> "nosniff"
                [] h = "X-Frame-Options" -> "DENY"
                [] h = "X-XSS-Protection" -> "1; mode=block"
                [] h = "Referrer-Policy" -> "strict-origin-when-cross-origin"
                [] OTHER -> "default-src 'self'; script-src 'none'; "
                            \o "object-src 'none'; base-uri 'self'; form-action 'self'" ]
        hsts == IF environment = "production"
                THEN [h \in {"Strict-Transport-Security"} |->
                         "max-age=31536000; includeSubDomains"]
                ELSE <<>>
    IN [response EXCEPT !.headers = Merge(Merge(@, always), hsts)]

\* CORSMiddleware, for a request that carries no Origin header
CORSMiddleware(response) == response

\* the response of the application to a request whose route ends in `out`:
\* ServerErrorMiddleware(general_exception_handler) around add_correlation_id
\* around CORSMiddleware around ExceptionMiddleware around the router; u_mw
\* and u_err are the uuid4() values drawn by add_correlation_id and by the
\* error path
app(request, out, u_mw, u_err) ==
    IF out.kind = "Exception"
    THEN general_exception_handler(Url(request.path), out, u_err)
    ELSE add_correlation_id(request.inbound,
            CORSMiddleware(ExceptionMiddleware(Url(request.path), out, u_err)),
            u_mw)

Inbound == {<<>>, <<"c0de-in">>}

\* one request to the application: r is the outcome of the endpoint and the
\* table it writes; fault "escape" is an exception the endpoint does not catch
Serve(method, path, payload, table, r, fault) ==
    \E inbound \in Inbound :
      LET request == Request(method, path, inbound, payload, fault)
          out == IF fault = "escape" THEN Unhandled(DbErrorText) ELSE r.out
      IN /\ req' = request
         /\ resp' = app(request, out, uuid4(1), uuid4(2))
         /\ table' = IF fault = "escape" THEN table ELSE r.table
         /\ UNCHANGED <<limiterVars, testing, environment, now, log, threads>>

Emails == {"a@x.io", "A@x.io", "b@x.io", "invalid-email"}
Names == {"", "Ann"}
UserPayloads ==
    [name : Names, email : Emails] \cup [name : {"Ann"}]
ChorePayloads == [title : {"", "Dishes"}, cadence : {"daily", "once", "hourly"}]
\* due dates sent: a second ago, this second, in a second
AssignmentPayloads ==
    [user_id : 1..MaxId, chore_id : 1..MaxId, due_at : (now - 1)..(now + 1)]
      \cup [user_id : {1}, chore_id : {1}]

GetHealth ==
    /\ Serve("GET", "/health", <<>>, users, [out |-> health, table |-> users], "none")
    /\ UNCHANGED <<chores, assignments>>

GetUser(user_id) ==
    \E fault \in Faults :
      /\ Serve("GET", "/users/" \o ToString(user_id), <<>>, users,
               [out |-> get_user(user_id, fault), table |-> users], fault)
      /\ UNCHANGED <<chores, assignments>>

CreateUser(payload) ==
    \E fault \in Faults :
      /\ Rows < MaxRows
      /\ Serve("POST", "/users", payload, users,
               create_user(payload, fault, uuid4(2)), fault)
      /\ UNCHANGED <<chores, assignments>>

CreateChore(payload) ==
    \E fault \in Faults :
      /\ Rows < MaxRows
      /\ Serve("POST", "/chores", payload, chores, create_chore(payload, fault), fault)
      /\ UNCHANGED <<users, assignments>>

CreateAssignment(payload) ==
    \E fault \in Faults :
      /\ Rows < MaxRows
      /\ Serve("POST", "/assignments", payload, assignments,
               create_assignment(payload, fault), fault)
      /\ UNCHANGED <<users, chores>>

\* TESTING and ENVIRONMENT: the test suite's process and a production one
Deployments == { <<TRUE, "development">>, <<FALSE, "production">> }

Init ==
    /\ max_requests = DefaultMaxRequests
    /\ window_seconds = DefaultWindowSeconds
    /\ block_duration = DefaultBlockDuration
    /\ requests = [c \in ClientIds |-> <<>>]
    /\ blocked = <<>>
    /\ \E d \in Deployments : testing = d[1] /\ environment = d[2]
    /\ users = <<>>
    /\ chores = <<>>
    /\ assignments = <<>>
    /\ now = 0
    /\ log = <<>>
    /\ req = NoRequest
    /\ resp = NoResponse
    /\ threads = [t \in Threads |-> Idle]

Next ==
    \/ Tick
    \/ GetHealth
    \/ \E user_id \in 1..MaxId : GetUser(user_id)
    \/ \E payload \in UserPayloads : CreateUser(payload)
    \/ \E payload \in ChorePayloads : CreateChore(payload)
    \/ \E payload \in AssignmentPayloads : CreateAssignment(payload)

Spec == Init /\ [][Next]_vars

(***************************************************************************)
(* Properties of the rate limiter (SpecLimiter)                            *)
(***************************************************************************)
Last(s) == s[Len(s)]

\* the calls before call i that the same client had admitted within
\* window_seconds of call i
AdmittedInWindowBefore(i) ==
    { j \in 1..(i - 1) : /\ log[j].client = log[i].client
                         /\ log[j].path = "admitted"
                         /\ log[j].time > log[i].time - window_seconds }

\* C1: for every client and every positive configuration, a call made when
\* max_requests earlier calls of the client were admitted within the window
\* is denied, and after a call that created a block every call of that client
\* is denied until block_duration seconds have passed since that call.
C1_DeniedAtLimitAndWhileBlocked ==
    /\ \A i \in 1..Len(log) :
         Cardinality(AdmittedInWindowBefore(i)) >= max_requests
            => log[i].path # "admitted"
    /\ \A i \in 1..Len(log) : \A j \in (i + 1)..Len(log) :
         ( /\ log[i].path = "blocked_for"
           /\ log[j].client = log[i].client
           /\ log[j].time < log[i].time + block_duration )
            => log[j].path # "admitted"

\* C1 witness: a client reached the limit, was denied by the call that
\* created the block and was denied again later, inside the block
C1_Witness ==
    \E i \in 1..Len(log) : \E j \in (i + 1)..Len(log) :
        /\ log[i].path = "blocked_for"
        /\ Cardinality(AdmittedInWindowBefore(i)) = max_requests
        /\ log[j].client = log[i].client
        /\ log[j].time > log[i].time
        /\ log[j].time < log[i].time + block_duration
        /\ log[j].path = "try_again"

\* this step is an is_allowed call of client c
CallBy(c) == Len(log') = Len(log) + 1 /\ Last(log').client = c

\* c holds a block entry that has run out: the call made now is its first
\* call at or after blocked_until
BlockExpired(c) == c \in DOMAIN blocked /\ now >= blocked[c]

C3_RetryAfterIsRemaining ==
    resp.status = 429 =>
        /\ "Retry-After" \in DOMAIN resp.headers
        /\ Last(log).path = "blocked_for"
              => resp.headers["Retry-After"] = ToString(block_duration)
        /\ Last(log).path = "try_again"
              => resp.headers["Retry-After"] =
                    ToString(blocked[Last(log).client] - Last(log).time)

(***************************************************************************)
(* Properties of the assembled application (Spec)                          *)
(***************************************************************************)
Answered == resp.status # 0
IsError == Answered /\ resp.status \notin 200..299

\* C4: a request off the bypass list, made with test mode off, reaches its
\* route only through the limiter's admission check; a denial is a 429
\* envelope of the rate-limit category and the route handler did not run.
C4_AdmissionBeforeHandler ==
    (Answered /\ ~testing /\ req.path \notin BypassPaths) =>
        /\ resp.admission
        /\ resp.status = 429 =>
              /\ ~resp.handled
              /\ DOMAIN resp.body = EnvelopeFields
              /\ resp.body.type = ERROR_TYPES.rate_limit_error

\* the seven fields are there and none is empty
PopulatedEnvelope(body) ==
    /\ EnvelopeFields \subseteq DOMAIN body
    /\ \A f \in EnvelopeFields \ {"status"} : body[f] # ""
    /\ body.status > 0

\* C5: every non-2xx response has all seven envelope fields, each populated.
C5_EnvelopeOnEveryError == IsError => PopulatedEnvelope(resp.body)

\* C6: in an error response the correlation_id of the body equals the
\* X-Correlation-ID header of the response, and the inbound X-Correlation-ID
\* when the request carried one.
C6_OneCorrelationId ==
    (IsError /\ "correlation_id" \in DOMAIN resp.body) =>
        /\ "X-Correlation-ID" \in DOMAIN resp.headers
        /\ resp.body.correlation_id = resp.headers["X-Correlation-ID"]
        /\ req.inbound # <<>> => resp.body.correlation_id = req.inbound[1]

\* C7: every response the application sends, success or failure, carries an
\* X-Correlation-ID header.
C7_CorrelationHeaderAlways ==
    Answered => /\ "X-Correlation-ID" \in DOMAIN resp.headers
                /\ resp.headers["X-Correlation-ID"] # ""

\* C7 witness: the catch-all handler answered, outside add_correlation_id,
\* and a request without the inbound header got a success answer
C7_Witness ==
    \/ /\ resp.status = 500
       /\ req.fault = "escape"
       /\ resp.body.detail = "An unexpected error occurred"
       /\ resp.headers["X-Correlation-ID"] = uuid4(2)
    \/ /\ resp.status = 422
       /\ req.inbound = <<>>
       /\ resp.headers["X-Correlation-ID"] = uuid4(1)

\* C8: every response carries the five fixed security headers, and
\* Strict-Transport-Security exactly when ENVIRONMENT is production.
C8_SecurityHeadersAlways ==
    Answered =>
        /\ {"X-Content-Type-Options", "X-Frame-Options", "X-XSS-Protection",
            "Referrer-Policy", "Content-Security-Policy"} \subseteq DOMAIN resp.headers
        /\ resp.headers["X-Content-Type-Options"] = "nosniff"
        /\ resp.headers["X-Frame-Options"] = "DENY"
        /\ resp.headers["X-XSS-Protection"] = "1; mode=block"
        /\ ("Strict-Transport-Security" \in DOMAIN resp.headers)
              <=> (environment = "production")

GenericDetails == {"An unexpected error occurred", "Failed to create user"}

\* C9: when the work of a route fails with an unexpected exception, the
\* detail of the 500 response is a fixed generic message, never the text of
\* the exception.
C9_NoExceptionTextInDetail ==
    (Answered /\ req.fault # "none" /\ resp.status = 500) =>
        /\ resp.body.detail \in GenericDetails
        /\ resp.body.detail # DbErrorText

\* the request gets as far as the schema of its route, which rejects the
\* payload
SchemaRejects(request) ==
    /\ request.fault # "escape"
    /\ \/ request.path = "/users" /\ UserCreate(request.payload) = <<>>
       \/ request.path = "/chores" /\ ChoreCreate(request.payload) = <<>>
       \/ request.path = "/assignments" /\ AssignmentCreate(request.payload) = <<>>

\* a business rule rejects the payload in the current state: duplicate
\* email, unknown user or chore, due date not in the future
RuleRejects(request) ==
    /\ ~SchemaRejects(request)
    /\ request.fault = "none"
    /\ \/ /\ request.path = "/users"
          /\ get_by_email(lower_strip(request.payload.email)) # {}
       \/ /\ request.path = "/assignments"
          /\ \/ request.payload.user_id \notin DOMAIN users
             \/ request.payload.chore_id \notin DOMAIN chores
             \/ request.payload.due_at <= now

\* C10: a request the schema rejects gets 422 and changes no table; one a
\* business rule rejects gets 400; both answers have the envelope's shape.
C10_ValidationBeforeDomain ==
    [][ (req'.payload # <<>> /\ resp'.status # 0) =>
          /\ SchemaRejects(req') =>
                /\ resp'.status = 422
                /\ ~resp'.handled
                /\ UNCHANGED dbVars
                /\ DOMAIN resp'.body = EnvelopeFields
          /\ RuleRejects(req') =>
                /\ resp'.status = 400
                /\ UNCHANGED dbVars
                /\ DOMAIN resp'.body = EnvelopeFields ]_vars

(***************************************************************************)
(* http_exception_handler over the status codes an HTTPException can carry *)
(***************************************************************************)
HttpStatusCodes == {400, 401, 403, 404, 405, 409, 422, 500, 503}
HttpDetails == {"User not found", "Not authenticated", "Forbidden"}

\* a route raises HTTPException(status_code, detail); req.payload keeps the
\* two arguments of the exception
RaiseHTTPException(status_code, detail) ==
    /\ Serve("GET", "/raise", [status_code |-> status_code, detail |-> detail], users,
             [out |-> HTTPException(status_code, detail), table |-> users], "none")
    /\ UNCHANGED <<chores, assignments>>

NextHttpError ==
    \/ Tick
    \/ \E status_code \in HttpStatusCodes, detail \in HttpDetails :
          RaiseHTTPException(status_code, detail)

SpecHttpError == Init /\ [][NextHttpError]_vars

\* the category the table of the specification gives a status code
CategoryOf(status_code) ==
    CASE status_code = 404 -> "https://api.choretracker.com/errors/not-found-error"
      [] status_code = 401 -> "https://api.choretracker.com/errors/authentication-error"
      [] status_code = 403 -> "https://api.choretracker.com/errors/authorization-error"
      [] OTHER -> "https://api.choretracker.com/errors/internal-error"

\* C11: the answer to an HTTPException has the category its status code
\* alone decides (404 not-found, 401 authentication, 403 authorization, any
\* other code internal), and both the response status and the envelope's
\* status field are the exception's status code.
C11_CategoryByStatusCode ==
    (Answered /\ req.path = "/raise") =>
        /\ resp.body.type = CategoryOf(req.payload.status_code)
        /\ resp.status = req.payload.status_code
        /\ resp.body.status = req.payload.status_code

\* C11 witness: an HTTPException with status code 401 was answered with
\* status 401 and the authentication-error category
C11_Witness ==
    /\ Answered
    /\ req.path = "/raise"
    /\ req.payload.status_code = 401
    /\ resp.status = 401
    /\ resp.body.type = ERROR_TYPES.authentication_error

(***************************************************************************)
(* The limiter's bypass (SpecLimiter)                                      *)
(***************************************************************************)
HealthAndDocPaths == {"/health", "/healthz", "/docs", "/redoc", "/openapi.json"}

\* C12: a request to a health-check or documentation endpoint, and any
\* request made while TESTING is true, is admitted and leaves the window
\* store and the block store as they were.
C12_BypassLeavesLimiterAlone ==
    [][ (resp'.status # 0 /\ (testing \/ req'.path \in HealthAndDocPaths))
           => /\ resp'.status = 200
              /\ requests' = requests
              /\ blocked' = blocked ]_vars

(***************************************************************************)
(* RateLimiter.is_allowed called from several threads: the statements of   *)
(* one call are steps of their own, and the calls share the two mappings   *)
(***************************************************************************)
InFlight == { t \in Threads : threads[t].pc # "idle" }

\* client_id = self._get_client_id(request); current_time = time.time()
ReadClock(t, origin) ==
    /\ threads[t].pc = "idle"
    /\ Len(log) + Cardinality(InFlight) < MaxCalls
    /\ threads' = [threads EXCEPT ![t] =
                      [pc |-> "check_blocked", client_id |-> get_client_id(origin),
                       current_time |-> now, request_count |-> 0]]
    /\ UNCHANGED <<limiterVars, testing, environment, dbVars, now, log, req, resp>>

\* if client_id in self.blocked: ... return False / del self.blocked[client_id]
CheckBlocked(t) ==
    LET f == threads[t]
    IN /\ f.pc = "check_blocked"
       /\ IF f.client_id \in DOMAIN blocked /\ f.current_time < blocked[f.client_id]
          THEN /\ threads' = [threads EXCEPT ![t] = Idle]
               /\ log' = Append(log, [client |-> f.client_id,
                                      time |-> f.current_time, path |-> "try_again"])
               /\ UNCHANGED blocked
          ELSE /\ threads' = [threads EXCEPT ![t].pc = "cleanup"]
               /\ blocked' = [c \in DOMAIN blocked \ {f.client_id} |-> blocked[c]]
               /\ UNCHANGED log
       /\ UNCHANGED <<max_requests, window_seconds, block_duration, requests,
                      testing, environment, dbVars, now, req, resp>>

\* self._cleanup_old_requests(client_id, current_time)
Cleanup(t) ==
    LET f == threads[t]
    IN /\ f.pc = "cleanup"
       /\ requests' = [requests EXCEPT ![f.client_id] =
                          cleanup_old_requests(@, f.current_time)]
       /\ threads' = [threads EXCEPT ![t].pc = "count"]
       /\ UNCHANGED <<max_requests, window_seconds, block_duration, blocked,
                      testing, environment, dbVars, now, log, req, resp>>

\* request_count = len(self.requests[client_id])
Count(t) ==
    LET f == threads[t]
    IN /\ f.pc = "count"
       /\ threads' = [threads EXCEPT ![t].pc = "decide",
                                     ![t].request_count = Len(requests[f.client_id])]
       /\ UNCHANGED <<limiterVars, testing, environment, dbVars, now, log, req, resp>>

\* if request_count >= self.max_requests: block and return False;
\* otherwise self.requests[client_id].append(current_time) and return True
Decide(t) ==
    LET f == threads[t]
    IN /\ f.pc = "decide"
       /\ IF f.request_count >= max_requests
          THEN /\ blocked' = Merge(blocked, [c \in {f.client_id} |->
                                               f.current_time + block_duration])
               /\ log' = Append(log, [client |-> f.client_id,
                                      time |-> f.current_time, path |-> "blocked_for"])
               /\ UNCHANGED requests
          ELSE /\ requests' = [requests EXCEPT ![f.client_id] =
                                  Append(@, f.current_time)]
               /\ log' = Append(log, [client |-> f.client_id,
                                      time |-> f.current_time, path |-> "admitted"])
               /\ UNCHANGED blocked
       /\ threads' = [threads EXCEPT ![t] = Idle]
       /\ UNCHANGED <<max_requests, window_seconds, block_duration,
                      testing, environment, dbVars, now, req, resp>>

InitConcurrent == InitLimiter /\ testing = FALSE

NextConcurrent ==
    \/ Tick
    \/ \E t \in Threads, origin \in Origins : ReadClock(t, origin)
    \/ \E t \in Threads : CheckBlocked(t)
    \/ \E t \in Threads : Cleanup(t)
    \/ \E t \in Threads : Count(t)
    \/ \E t \in Threads : Decide(t)

SpecConcurrent == InitConcurrent /\ [][NextConcurrent]_vars

\* C13: under every interleaving of is_allowed calls, the list of timestamps
\* of each client is in non-decreasing order.
C13_TimestampsChronological ==
    \A c \in ClientIds :
        \A i \in 1..Len(requests[c]) : \A j \in i..Len(requests[c]) :
            requests[c][i] <= requests[c][j]

(***************************************************************************)
(* InputValidator.sanitize_string.  A string is the sequence of its        *)
(* characters; a regular expression is a sequence of items, each a class   *)
(* of characters with a quantifier ("1", "*" or "+"), and the end re takes *)
(* among the possible ends of a match: the "shortest" when the pattern's   *)
(* one choice is lazy, the "longest" when it is greedy.                    *)
(***************************************************************************)
Lower == << "a", "b", "c", "d", "e", "f", "g", "h", "i", "j", "k", "l", "m",
            "n", "o", "p", "q", "r", "s", "t", "u", "v", "w", "x", "y", "z" >>
Upper == << "A", "B", "C", "D", "E", "F", "G", "H", "I", "J", "K", "L", "M",
            "N", "O", "P", "Q", "R", "S", "T", "U", "V", "W", "X", "Y", "Z" >>
Letters == { Lower[k] : k \in 1..26 } \cup { Upper[k] : k \in 1..26 }
Digits == {"0", "1", "2", "3", "4", "5", "6", "7", "8", "9"}
Whitespace == {" ", "\t", "\n"}
Punctuation == {"<", ">", "/", "(", ")", ":", ".", "=", "\"", "'", "&", ";",
                "-", "*", ",", "@"}
Alphabet == Letters \cup Digits \cup {"_"} \cup Whitespace \cup Punctuation

\* the classes \w, \s, [^>] and . (without and with re.DOTALL)
WordChars == Letters \cup Digits \cup {"_"}
NotGt == Alphabet \ {">"}
Dot == Alphabet \ {"\n"}
DotAll == Alphabet

\* the characters that match c under re.IGNORECASE
Fold(c) ==
    IF c \in Letters
    THEN LET k == CHOOSE k \in 1..26 : c \in {Lower[k], Upper[k]}
         IN {Lower[k], Upper[k]}
    ELSE {c}

One(cls) == << [cls |-> cls, q |-> "1"] >>
Star(cls) == << [cls |-> cls, q |-> "*"] >>
Plus(cls) == << [cls |-> cls, q |-> "+"] >>
\* a literal, case-sensitive and under re.IGNORECASE
Lit(w) == [k \in 1..Len(w) |-> [cls |-> {w[k]}, q |-> "1"]]
LitI(w) == [k \in 1..Len(w) |-> [cls |-> Fold(w[k]), q |-> "1"]]

Regex(items, end) == [items |-> items, end |-> end]

SetMin(S) == CHOOSE x \in S : \A y \in S : x <= y

\* the length of the longest run of characters of cls in s from position i
Run(cls, s, i) ==
    SetMax({ n \in 0..(Len(s) - i + 1) : \A m \in 0..(n - 1) : s[i + m] \in cls })

\* the positions just after a match of items k.. of the pattern that starts
\* at position i of s
RECURSIVE MatchEnds(_, _, _, _)
MatchEnds(items, s, k, i) ==
    IF k > Len(items) THEN {i}
    ELSE LET run == Run(items[k].cls, s, i)
             least == IF items[k].q = "*" THEN 0 ELSE 1
             most == IF items[k].q = "1" THEN 1 ELSE run
         IN IF run < least THEN {}
            ELSE UNION { MatchEnds(items, s, k + 1, i + n) : n \in least..most }

\* re.search(pattern, s) is not None
re_search(pattern, s) ==
    \E i \in 1..Len(s) : MatchEnds(pattern.items, s, 1, i) # {}

\* re.sub(pattern, "", s): the leftmost match is cut out and the scan goes on
\* after it (no pattern here matches the empty string)
RECURSIVE SubFrom(_, _, _)
SubFrom(pattern, s, i) ==
    IF i > Len(s) THEN <<>>
    ELSE LET ends == MatchEnds(pattern.items, s, 1, i)
         IN IF ends = {} THEN <<s[i]>> \o SubFrom(pattern, s, i + 1)
            ELSE SubFrom(pattern, s,
                         IF pattern.end = "shortest" THEN SetMin(ends)
                         ELSE SetMax(ends))

re_sub(pattern, s) == SubFrom(pattern, s, 1)

\* r"<[^>]*>.*?</[^>]*>" with re.DOTALL, and r"<[^>]+>"
tag_block ==
    Regex(Lit(<<"<">>) \o Star(NotGt) \o Lit(<<">">>) \o Star(DotAll)
          \o Lit(<<"<", "/">>) \o Star(NotGt) \o Lit(<<">">>), "shortest")
tag == Regex(Lit(<<"<">>) \o Plus(NotGt) \o Lit(<<">">>), "shortest")

dangerous_patterns ==
    << Regex(LitI(<<"j", "a", "v", "a", "s", "c", "r", "i", "p", "t", ":">>), "longest"),
       Regex(LitI(<<"a", "l", "e", "r", "t">>) \o Star(Whitespace) \o Lit(<<"(">>),
             "longest"),
       Regex(LitI(<<"e", "v", "a", "l">>) \o Star(Whitespace) \o Lit(<<"(">>), "longest"),
       Regex(LitI(<<"e", "x", "e", "c">>) \o Star(Whitespace) \o Lit(<<"(">>), "longest"),
       Regex(LitI(<<"d", "o", "c", "u", "m", "e", "n", "t", ".">>), "longest"),
       Regex(LitI(<<"w", "i", "n", "d", "o", "w", ".">>), "longest"),
       Regex(LitI(<<"o", "n">>) \o Plus(WordChars) \o Star(Whitespace) \o Lit(<<"=">>),
             "longest") >>

sql_patterns ==
    << Regex(LitI(<<"D", "R", "O", "P">>) \o Plus(Whitespace)
             \o LitI(<<"T", "A", "B", "L", "E">>), "longest"),
       Regex(LitI(<<"D", "E", "L", "E", "T", "E">>) \o Plus(Whitespace)
             \o LitI(<<"F", "R", "O", "M">>), "longest"),
       Regex(LitI(<<"I", "N", "S", "E", "R", "T">>) \o Plus(Whitespace)
             \o LitI(<<"I", "N", "T", "O">>), "longest"),
       Regex(LitI(<<"U", "P", "D", "A", "T", "E">>) \o Plus(Whitespace)
             \o LitI(<<"S", "E", "T">>), "longest"),
       Regex(LitI(<<"S", "E", "L", "E", "C", "T">>) \o Plus(Whitespace) \o Star(Dot)
             \o Plus(Whitespace) \o LitI(<<"F", "R", "O", "M">>), "longest"),
       Regex(LitI(<<"U", "N", "I", "O", "N">>) \o Plus(Whitespace)
             \o LitI(<<"S", "E", "L", "E", "C", "T">>), "longest"),
       Regex(LitI(<<"O", "R">>) \o Plus(Whitespace) \o Lit(<<"1">>) \o Star(Whitespace)
             \o Lit(<<"=">>) \o Star(Whitespace) \o Lit(<<"1">>), "longest"),
       Regex(LitI(<<"A", "N", "D">>) \o Plus(Whitespace) \o Lit(<<"1">>)
             \o Star(Whitespace) \o Lit(<<"=">>) \o Star(Whitespace) \o Lit(<<"1">>),
             "longest"),
       Regex(Lit(<<";">>) \o Star(Whitespace) \o Lit(<<"-", "-">>), "longest"),
       Regex(Lit(<<"/", "*">>) \o Star(Dot) \o Lit(<<"*", "/">>), "shortest") >>

\* for pattern in patterns: clean = re.sub(pattern, "", clean)
RECURSIVE sub_each(_, _, _)
sub_each(patterns, k, clean) ==
    IF k > Len(patterns) THEN clean
    ELSE sub_each(patterns, k + 1, re_sub(patterns[k], clean))

\* mutant of truncate: the length is not limited
truncate_keeps_all(clean, max_length) == clean

\* clean[:max_length]
truncate(clean, max_length) ==
    IF max_length >= 0
    THEN SubSeq(clean, 1, IF max_length < Len(clean) THEN max_length ELSE Len(clean))
    ELSE SubSeq(clean, 1, IF Len(clean) + max_length > 0
                          THEN Len(clean) + max_length ELSE 0)

\* for char in ["<", ">", '"', "'", "&"]: clean = clean.replace(char, "")
remove_dangerous_chars(clean) ==
    LET keep(c) == c \notin {"<", ">", "\"", "'", "&"}
    IN SelectSeq(clean, keep)

\* str.strip()
str_strip(clean) ==
    LET inner == { i \in 1..Len(clean) : clean[i] \notin Whitespace }
    IN IF inner = {} THEN <<>> ELSE SubSeq(clean, SetMin(inner), SetMax(inner))

sanitize_string(value, max_length) ==
    LET clean1 == re_sub(tag_block, value)
        clean2 == re_sub(tag, clean1)
        clean3 == sub_each(dangerous_patterns, 1, clean2)
        clean4 == sub_each(sql_patterns, 1, clean3)
        clean5 == truncate(clean4, max_length)
        clean6 == remove_dangerous_chars(clean5)
    IN str_strip(clean6)

\* the values sent: up to MaxPieces of these pieces, one after another
MaxPieces == 3
Pieces ==
    { <<"j", "a", "v", "a", "s", "c", "r", "i", "p", "t", ":">>,
      <<"E", "v", "a", "l">>, <<"(">>, <<"&">>, <<" ">>,
      <<"<", "b", ">">>, <<"<", "/", "b", ">">>,
      <<"o", "n", "l", "o", "a", "d", "=">>,
      <<"D", "R", "O", "P">>, <<"t", "a", "b", "l", "e">> }

RECURSIVE Concatenations(_)
Concatenations(n) ==
    IF n = 0 THEN {<<>>}
    ELSE LET shorter == Concatenations(n - 1)
         IN shorter \cup { s \o p : s \in shorter, p \in Pieces }

\* the values of max_length: the default, the one UserCreate passes, and
\* lengths the values sent exceed
MaxLengths == {0, 1, 4, 5, 100, 255}

\* req is the call sanitize_string(value, max_length); resp its result, and
\* then the result of sanitizing that result again with the same max_length
Sanitize ==
    /\ resp = NoResponse
    /\ resp' = [value |-> sanitize_string(req.value, req.max_length),
                previous |-> req.value, passes |-> 1]
    /\ UNCHANGED <<limiterVars, testing, environment, dbVars, now, log, req, threads>>

Resanitize ==
    /\ resp # NoResponse
    /\ resp.passes = 1
    /\ resp' = [value |-> sanitize_string(resp.value, req.max_length),
                previous |-> resp.value, passes |-> 2]
    /\ UNCHANGED <<limiterVars, testing, environment, dbVars, now, log, req, threads>>

InitSanitize ==
    /\ max_requests = DefaultMaxRequests
    /\ window_seconds = DefaultWindowSeconds
    /\ block_duration = DefaultBlockDuration
    /\ requests = [c \in ClientIds |-> <<>>]
    /\ blocked = <<>>
    /\ testing = TRUE
    /\ environment = "development"
    /\ users = <<>>
    /\ chores = <<>>
    /\ assignments = <<>>
    /\ now = 0
    /\ log = <<>>
    /\ req \in [value : Concatenations(MaxPieces), max_length : MaxLengths]
    /\ resp = NoResponse
    /\ threads = [t \in Threads |-> Idle]

NextSanitize == Sanitize \/ Resanitize

SpecSanitize == InitSanitize /\ [][NextSanitize]_vars

(***************************************************************************)
(* Properties of sanitize_string (SpecSanitize)                            *)
(***************************************************************************)
Sanitized == "passes" \in DOMAIN resp

\* C14: for every value and every max_length the result of sanitize_string
\* holds no match of a denylisted script-trigger pattern (javascript:,
\* alert(, eval(, exec(, document., window., on<word>=; case-insensitively)
\* and no markup tag.
C14_NoScriptTriggerLeft ==
    Sanitized =>
        /\ \A k \in 1..Len(dangerous_patterns) :
              ~re_search(dangerous_patterns[k], resp.value)
        /\ ~re_search(tag, resp.value)

\* C15: sanitizing the result of sanitize_string again, with the same
\* max_length, gives that result back.
C15_SanitizeIdempotent ==
    (Sanitized /\ resp.passes = 2) => resp.value = resp.previous

\* C16: for every value and every max_length >= 0 the result of
\* sanitize_string has at most max_length characters.
C16_AtMostMaxLength ==
    (Sanitized /\ req.max_length >= 0) => Len(resp.value) <= req.max_length

\* C16 witness: a value longer than a positive max_length was sanitized and
\* the result has exactly max_length characters
C16_Witness ==
    /\ Sanitized
    /\ resp.passes = 1
    /\ req.max_length > 0
    /\ Len(req.value) > req.max_length
    /\ Len(resp.value) = req.max_length

(***************************************************************************)
(* Domain: updates, deletions and statistics                               *)
(***************************************************************************)
\* a row as the API returns it, with its id
WithId(table, id) == Merge(table[id], [k \in {"id"} |-> id])

\* UserUpdate: both fields optional; a field is a sequence, empty for None
UserUpdate(payload) ==
    IF "name" \in DOMAIN payload /\ payload.name = "" THEN <<>>
    ELSE IF "email" \in DOMAIN payload /\ ~validate_email(payload.email) THEN <<>>
    ELSE << [name |-> IF "name" \in DOMAIN payload THEN <<payload.name>> ELSE <<>>,
             email |-> IF "email" \in DOMAIN payload
                       THEN <<lower_strip(payload.email)>> ELSE <<>>] >>

\* AssignmentStatus, and AssignmentUpdate
AssignmentStatus == {"pending", "in_progress", "completed", "overdue"}

AssignmentUpdate(payload) ==
    IF payload.status \notin AssignmentStatus THEN <<>> ELSE << payload >>

\* UserRepository.update: None (the empty sequence) when there is no such row
UserRepository_update(user_id, name, email) ==
    IF user_id \notin DOMAIN users THEN Value(<<>>, users)
    ELSE LET user == [users[user_id] EXCEPT
                        !.name = IF name # <<>> THEN name[1] ELSE @,
                        !.email = IF email # <<>> THEN email[1] ELSE @]
             table == [users EXCEPT ![user_id] = user]
         IN Value(<<WithId(table, user_id)>>, table)

\* mutant of UserService.update_user: the email is not looked up
UserService_update_user_unchecked(user_id, name, email) ==
    UserRepository_update(user_id, name, email)

\* UserService.update_user
UserService_update_user(user_id, name, email) ==
    IF email # <<>> /\ \E existing_user \in get_by_email(email[1]) :
                          existing_user # user_id
    THEN ValueError("User with this email already exists", users)
    ELSE UserRepository_update(user_id, name, email)

\* str(e) of the IntegrityError raised when the rows that refer to a deleted
\* row would be left with a NULL in a NOT NULL column
IntegrityErrorText ==
    "(sqlite3.IntegrityError) NOT NULL constraint failed: assignments.user_id"

\* UserRepository.delete: False when there is no such row; the commit fails
\* when assignments refer to the user
UserRepository_delete(user_id) ==
    IF user_id \notin DOMAIN users THEN Value(FALSE, users)
    ELSE IF \E a \in DOMAIN assignments : assignments[a].user_id = user_id
    THEN [raised |-> "IntegrityError", value |-> IntegrityErrorText, table |-> users]
    ELSE Value(TRUE, [i \in DOMAIN users \ {user_id} |-> users[i]])

\* AssignmentRepository.update_status
AssignmentRepository_update_status(assignment_id, status) ==
    IF assignment_id \notin DOMAIN assignments THEN Value(<<>>, assignments)
    ELSE LET assignment == [assignments[assignment_id] EXCEPT
                              !.status = status,
                              !.completed_at = IF status = "completed"
                                               THEN <<now>> ELSE @]
             table == [assignments EXCEPT ![assignment_id] = assignment]
         IN Value(<<WithId(table, assignment_id)>>, table)

\* mutant of AssignmentService.update_assignment_status: the status asked for
\* is stored whatever the due date
AssignmentService_update_assignment_status_as_asked(assignment_id, status) ==
    IF assignment_id \notin DOMAIN assignments THEN Value(<<>>, assignments)
    ELSE AssignmentRepository_update_status(assignment_id, status)

\* AssignmentService.update_assignment_status
AssignmentService_update_assignment_status(assignment_id, status) ==
    IF assignment_id \notin DOMAIN assignments THEN Value(<<>>, assignments)
    ELSE AssignmentRepository_update_status(assignment_id,
            IF assignments[assignment_id].due_at < now /\ status # "completed"
            THEN "overdue" ELSE status)

\* AssignmentRepository.delete
AssignmentRepository_delete(assignment_id) ==
    IF assignment_id \notin DOMAIN assignments THEN Value(FALSE, assignments)
    ELSE Value(TRUE, [i \in DOMAIN assignments \ {assignment_id} |-> assignments[i]])

\* mutant of AssignmentRepository.get_overdue: every row past its due date
get_overdue_any_status == { a \in DOMAIN assignments : assignments[a].due_at < now }

\* AssignmentRepository.get_overdue: the ids of the rows selected
get_overdue ==
    { a \in DOMAIN assignments :
         assignments[a].due_at < now /\ assignments[a].status # "completed" }

\* AssignmentService.get_statistics; completion_rate is in hundredths of a
\* percent, rounded
AssignmentService_get_statistics ==
    LET all_assignments == DOMAIN assignments
        total_assignments == Cardinality(all_assignments)
        completed_assignments ==
            Cardinality({a \in all_assignments : assignments[a].status = "completed"})
        pending_assignments ==
            Cardinality({a \in all_assignments : assignments[a].status = "pending"})
        overdue_count == Cardinality(get_overdue)
        completion_rate ==
            IF total_assignments > 0
            THEN (completed_assignments * 20000 + total_assignments)
                    \div (2 * total_assignments)
            ELSE 0
    IN [ total_assignments |-> total_assignments,
         completed_assignments |-> completed_assignments,
         pending_assignments |-> pending_assignments,
         overdue_assignments |-> overdue_count,
         completion_rate |-> completion_rate ]

\* the routes: the outcome of the endpoint and the table it writes
get_statistics(fault) ==
    IF fault = "db" THEN HTTPException(500, DbErrorText)
    ELSE Return([statistics |-> AssignmentService_get_statistics])

update_user(user_id, payload, fault) ==
    LET user_data == UserUpdate(payload)
    IN IF user_data = <<>> THEN [out |-> RequestValidationError, table |-> users]
       ELSE IF fault = "db"
       THEN [out |-> HTTPException(500, DbErrorText), table |-> users]
       ELSE LET r == UserService_update_user(user_id, user_data[1].name,
                                             user_data[1].email)
            IN IF r.raised = "ValueError"
               THEN [out |-> HTTPException(400, r.value), table |-> r.table]
               ELSE IF r.value = <<>>
               THEN [out |-> HTTPException(404, "User not found"), table |-> r.table]
               ELSE [out |-> Return(r.value[1]), table |-> r.table]

delete_user(user_id, fault) ==
    IF fault = "db" THEN [out |-> HTTPException(500, DbErrorText), table |-> users]
    ELSE LET r == UserRepository_delete(user_id)
         IN IF r.raised # "none"
            THEN [out |-> HTTPException(500, r.value), table |-> r.table]
            ELSE IF ~r.value
            THEN [out |-> HTTPException(404, "User not found"), table |-> r.table]
            ELSE [out |-> Return([message |-> "User deleted successfully"]),
                  table |-> r.table]

update_assignment(assignment_id, payload, fault) ==
    LET assignment_data == AssignmentUpdate(payload)
    IN IF assignment_data = <<>>
       THEN [out |-> RequestValidationError, table |-> assignments]
       ELSE IF fault = "db"
       THEN [out |-> HTTPException(500, DbErrorText), table |-> assignments]
       ELSE LET r == AssignmentService_update_assignment_status(
                        assignment_id, assignment_data[1].status)
            IN IF r.value = <<>>
               THEN [out |-> HTTPException(404, "Assignment not found"),
                     table |-> r.table]
               ELSE [out |-> Return(r.value[1]), table |-> r.table]

delete_assignment(assignment_id, fault) ==
    IF fault = "db"
    THEN [out |-> HTTPException(500, DbErrorText), table |-> assignments]
    ELSE LET r == AssignmentRepository_delete(assignment_id)
         IN IF ~r.value
            THEN [out |-> HTTPException(404, "Assignment not found"),
                  table |-> r.table]
            ELSE [out |-> Return([message |-> "Assignment deleted successfully"]),
                  table |-> r.table]

\* the bodies sent to PUT /users/{id} and PUT /assignments/{id}
UserUpdatePayloads ==
    [name : {"", "Bob"}] \cup [email : Emails \ {"A@x.io"}]
        \cup [name : {"Bob"}, email : {"a@x.io", "b@x.io"}]
AssignmentUpdatePayloads == [status : AssignmentStatus \cup {"done"}]

GetStatistics ==
    \E fault \in Faults :
      /\ Serve("GET", "/statistics", <<>>, assignments,
               [out |-> get_statistics(fault), table |-> assignments], fault)
      /\ UNCHANGED <<users, chores>>

UpdateUser(user_id, payload) ==
    \E fault \in Faults :
      /\ Serve("PUT", "/users/" \o ToString(user_id), payload, users,
               update_user(user_id, payload, fault), fault)
      /\ UNCHANGED <<chores, assignments>>

DeleteUser(user_id) ==
    \E fault \in Faults :
      /\ Serve("DELETE", "/users/" \o ToString(user_id), <<>>, users,
               delete_user(user_id, fault), fault)
      /\ UNCHANGED <<chores, assignments>>

UpdateAssignment(assignment_id, payload) ==
    \E fault \in Faults :
      /\ Serve("PUT", "/assignments/" \o ToString(assignment_id), payload,
               assignments, update_assignment(assignment_id, payload, fault), fault)
      /\ UNCHANGED <<users, chores>>

DeleteAssignment(assignment_id) ==
    \E fault \in Faults :
      /\ Serve("DELETE", "/assignments/" \o ToString(assignment_id), <<>>,
               assignments, delete_assignment(assignment_id, fault), fault)
      /\ UNCHANGED <<users, chores>>

\* a request served with the database healthy, and sent without a
\* correlation header
Healthy == req'.fault = "none" /\ req'.inbound = <<>>

\* the test suite's process, its tables empty
InitDomain == Init /\ testing

\* the routes of the users, with the database healthy; the ids of new rows
\* stay within the ids requests name
NextUsers ==
    \/ \E payload \in UserPayloads :
          NextId(users) <= MaxId /\ CreateUser(payload) /\ Healthy
    \/ \E user_id \in 1..MaxId, payload \in UserUpdatePayloads :
          UpdateUser(user_id, payload) /\ Healthy
    \/ \E user_id \in 1..MaxId : DeleteUser(user_id) /\ Healthy
    \/ \E user_id \in 1..MaxId : GetUser(user_id) /\ Healthy

SpecUsers == InitDomain /\ [][NextUsers]_vars

\* the routes of the assignments, with the database healthy, and the users
\* and chores they refer to
NextAssignments ==
    \/ Tick
    \/ NextId(users) <= MaxId /\ CreateUser([name |-> "Ann", email |-> "a@x.io"])
          /\ Healthy
    \/ NextId(chores) <= MaxId /\ CreateChore([title |-> "Dishes", cadence |-> "daily"])
          /\ Healthy
    \/ \E payload \in AssignmentPayloads :
          NextId(assignments) <= MaxId /\ CreateAssignment(payload) /\ Healthy
    \/ \E assignment_id \in 1..MaxId, payload \in AssignmentUpdatePayloads :
          UpdateAssignment(assignment_id, payload) /\ Healthy
    \/ \E assignment_id \in 1..MaxId : DeleteAssignment(assignment_id) /\ Healthy
    \/ GetStatistics /\ Healthy

SpecAssignments == InitDomain /\ [][NextAssignments]_vars

(***************************************************************************)
(* Properties of the users (SpecUsers)                                     *)
(***************************************************************************)
UniqueEmails ==
    \A i \in DOMAIN users : \A j \in DOMAIN users :
        users[i].email = users[j].email => i = j

\* the request of this step is PUT /users/{user_id}
PutUser(user_id) ==
    req'.method = "PUT" /\ req'.path = "/users/" \o ToString(user_id)

\* the request of this step asks for an email that a user other than the
\* one it writes holds already
AsksForHeldEmail ==
    \/ /\ req'.method = "POST" /\ req'.path = "/users"
       /\ UserCreate(req'.payload) # <<>>
       /\ \E i \in DOMAIN users : users[i].email = UserCreate(req'.payload)[1].email
    \/ \E user_id \in 1..MaxId :
       /\ PutUser(user_id)
       /\ UserUpdate(req'.payload) # <<>>
       /\ UserUpdate(req'.payload)[1].email # <<>>
       /\ \E i \in DOMAIN users \ {user_id} :
             users[i].email = UserUpdate(req'.payload)[1].email[1]

\* C17: whatever users are created, updated and deleted, no two stored users
\* have the same email; a request to create a user with, or to change a user
\* to, an email another user holds is answered 400 "already exists" and
\* leaves the users as they were.
C17_EmailsStayUnique ==
    [][ /\ UniqueEmails'
        /\ AsksForHeldEmail =>
              /\ resp'.status = 400
              /\ resp'.body.detail = "User with this email already exists"
              /\ users' = users ]_vars

\* C17 witness: with two users stored, a PUT that asked for the other user's
\* email was answered 400 "already exists"
C17_Witness ==
    /\ Cardinality(DOMAIN users) = 2
    /\ req.method = "PUT"
    /\ "email" \in DOMAIN req.payload
    /\ \E i \in DOMAIN users : users[i].email = req.payload.email
    /\ resp.status = 400
    /\ resp.body.detail = "User with this email already exists"

\* C20: PUT /users/{id} for an id no stored user has is answered 404 for
\* every schema-valid body, whatever emails the stored users hold, and
\* changes no user.
C20_UpdateOfMissingUserIs404 ==
    [][ \A user_id \in 1..MaxId :
          ( /\ PutUser(user_id)
            /\ user_id \notin DOMAIN users
            /\ UserUpdate(req'.payload) # <<>> )
             => (resp'.status = 404 /\ users' = users) ]_vars

(***************************************************************************)
(* Properties of the assignments (SpecAssignments)                         *)
(***************************************************************************)
PostAssignment ==
    /\ req'.method = "POST" /\ req'.path = "/assignments"
    /\ AssignmentCreate(req'.payload) # <<>>

\* the rule a request to create an assignment breaks, in the order user,
\* chore, due date; "" when it breaks none
BrokenRule(payload) ==
    IF payload.user_id \notin DOMAIN users THEN "User not found"
    ELSE IF payload.chore_id \notin DOMAIN chores THEN "Chore not found"
    ELSE IF ~(payload.due_at > now) THEN "Due date must be in the future"
    ELSE ""

\* C18: an assignment is created, pending and with completed_at unset, only
\* when the user exists, the chore exists and due_at is after the current
\* time; otherwise the answer is 400 with the first broken rule (user, chore,
\* due date) as detail and no assignment is created.
C18_AssignmentRules ==
    [][ PostAssignment =>
          /\ BrokenRule(req'.payload) # "" =>
                /\ resp'.status = 400
                /\ resp'.body.detail = BrokenRule(req'.payload)
                /\ assignments' = assignments
          /\ assignments' # assignments =>
                /\ BrokenRule(req'.payload) = ""
                /\ \E a \in DOMAIN assignments' \ DOMAIN assignments :
                      /\ DOMAIN assignments' = DOMAIN assignments \cup {a}
                      /\ assignments'[a].status = "pending"
                      /\ assignments'[a].completed_at = <<>>
                      /\ assignments'[a].user_id = req'.payload.user_id
                      /\ assignments'[a].chore_id = req'.payload.chore_id
                      /\ assignments'[a].due_at = req'.payload.due_at ]_vars

\* C18 witness: with the user and the chore stored, a request whose due date
\* is the current time was answered 400 "Due date must be in the future"
C18_Witness ==
    /\ req.method = "POST" /\ req.path = "/assignments"
    /\ "due_at" \in DOMAIN req.payload
    /\ req.payload.user_id \in DOMAIN users
    /\ req.payload.chore_id \in DOMAIN chores
    /\ req.payload.due_at = now
    /\ resp.status = 400
    /\ resp.body.detail = "Due date must be in the future"

StatisticsAnswered ==
    req.method = "GET" /\ req.path = "/statistics" /\ resp.status = 200

CountWhere(P(_)) == Cardinality({ a \in DOMAIN assignments : P(assignments[a]) })

\* C19: after any creations, status updates and deletions of assignments,
\* the statistics give total = the stored assignments, completed = those
\* with status completed, pending = those with status pending, overdue =
\* those due before now whose status is not completed, and a completion rate
\* of 0 when nothing is stored.
C19_StatisticsCount ==
    StatisticsAnswered =>
        LET stats == resp.body.statistics
            IsCompleted(a) == a.status = "completed"
            IsPending(a) == a.status = "pending"
            IsOverdue(a) == a.due_at < now /\ a.status # "completed"
        IN /\ stats.total_assignments = Cardinality(DOMAIN assignments)
           /\ stats.completed_assignments = CountWhere(IsCompleted)
           /\ stats.pending_assignments = CountWhere(IsPending)
           /\ stats.overdue_assignments = CountWhere(IsOverdue)
           /\ DOMAIN assignments = {} => stats.completion_rate = 0

\* C19 witness: the statistics were given while an assignment past its due
\* date was completed: one completed, none overdue
C19_Witness ==
    /\ StatisticsAnswered
    /\ \E a \in DOMAIN assignments :
          assignments[a].due_at < now /\ assignments[a].status = "completed"
    /\ resp.body.statistics.completed_assignments = 1
    /\ resp.body.statistics.overdue_assignments = 0


(***************************************************************************)
(* Frame, admission and fairness properties of RateLimiter                 *)
(***************************************************************************)
\* c is inside an active block: now < blocked_until
ActiveBlock(c) == c \in DOMAIN blocked /\ now < blocked[c]

\* C21: an is_allowed call of a client inside an active block is denied and
\* changes nothing: no window is purged or appended to, and no block entry is
\* extended or removed.
C21_BlockedCallChangesNothing ==
    [][ \A c \in ClientIds :
          (CallBy(c) /\ ActiveBlock(c))
             => /\ Last(log').path = "try_again"
                /\ resp'.status = 429
                /\ requests' = requests
                /\ blocked' = blocked ]_vars

\* C21 witness: the last call fell inside an active block while the window
\* held a timestamp that a purge at that time would have removed
C21_Witness ==
    /\ log # <<>>
    /\ Last(log).path = "try_again"
    /\ resp.status = 429
    /\ Last(log).time = now
    /\ now < blocked[Last(log).client]
    /\ \E i \in 1..Len(requests[Last(log).client]) :
          requests[Last(log).client][i] <= now - window_seconds

\* the timestamps of c's window that a purge at the present time keeps
Purged(c) ==
    LET recent(ts) == ts > now - window_seconds
    IN SelectSeq(requests[c], recent)

\* C22: an is_allowed call is admitted exactly when the client has no active
\* block and, after the purge, fewer than max_requests timestamps; an admitted
\* call appends exactly one timestamp equal to now; a client with no prior
\* requests is admitted; and the call that finds the purged window holding
\* max_requests entries is the one that creates the block.
C22_AdmittedIffRoomInWindow ==
    [][ \A c \in ClientIds :
          CallBy(c) =>
            /\ Last(log').path = "admitted"
                 <=> (~ActiveBlock(c) /\ Len(Purged(c)) < max_requests)
            /\ Last(log').path = "admitted"
                 => /\ requests'[c] = Append(Purged(c), now)
                    /\ resp'.status = 200
            /\ (requests[c] = <<>> /\ c \notin DOMAIN blocked)
                 => Last(log').path = "admitted"
            /\ Last(log').path = "blocked_for"
                 <=> (~ActiveBlock(c) /\ Len(Purged(c)) >= max_requests)
            /\ Last(log').path = "blocked_for"
                 => /\ Len(Purged(c)) = max_requests
                    /\ blocked'[c] = now + block_duration
                    /\ requests'[c] = Purged(c) ]_vars

\* C22 witness: the last call found the purged window holding max_requests
\* entries and created the block, after an earlier call of the same client
\* was admitted into an empty window
C22_Witness ==
    /\ log # <<>>
    /\ Last(log).path = "blocked_for"
    /\ Len(requests[Last(log).client]) = max_requests
    /\ blocked[Last(log).client] = Last(log).time + block_duration
    /\ \E k \in 1..(Len(log) - 1) :
          /\ log[k].client = Last(log).client
          /\ log[k].path = "admitted"
          /\ \A j \in 1..(k - 1) : log[j].client # Last(log).client

\* C23: right after an is_allowed call that was not denied by an active
\* block, every timestamp of the caller's window is later than
\* now - window_seconds and not later than now; and a step that is not a call
\* of client c leaves c's window as it was, so older entries go only at c's
\* own next check.
C23_WindowFreshAfterCheck ==
    [][ \A c \in ClientIds :
          /\ (CallBy(c) /\ Last(log').path # "try_again")
                => \A i \in 1..Len(requests'[c]) :
                      /\ requests'[c][i] > now' - window_seconds
                      /\ requests'[c][i] <= now'
          /\ ~CallBy(c) => requests'[c] = requests[c] ]_vars

\* C23 witness: the last call, not denied by an active block, purged a
\* timestamp of an earlier admitted call that had left the window, and time
\* has passed since without the window being touched
C23_Witness ==
    /\ log # <<>>
    /\ Last(log).path # "try_again"
    /\ Last(log).time < now
    /\ \E k \in 1..(Len(log) - 1) :
          /\ log[k].client = Last(log).client
          /\ log[k].path = "admitted"
          /\ log[k].time <= Last(log).time - window_seconds
    /\ requests[Last(log).client] # <<>>
    /\ \A i \in 1..Len(requests[Last(log).client]) :
          requests[Last(log).client][i] > Last(log).time - window_seconds
    /\ \E i \in 1..Len(requests[Last(log).client]) :
          requests[Last(log).client][i] <= now - window_seconds

\* C26: in every state reached by is_allowed calls with a non-decreasing
\* clock and a fixed configuration, no client's window holds more than
\* max_requests timestamps.
C26_WindowAtMostMaxRequests ==
    \A c \in ClientIds : Len(requests[c]) <= max_requests

\* C26 witness: a window is full and a further call of its client has just
\* been turned away by the count
C26_Witness ==
    /\ log # <<>>
    /\ Last(log).path = "blocked_for"
    /\ Last(log).time = now
    /\ Len(requests[Last(log).client]) = max_requests
    /\ max_requests > 1

\* C27: an is_allowed call of client c leaves the window and the block entry
\* of every other client b unchanged.
C27_OtherClientsUntouched ==
    [][ \A c \in ClientIds :
          CallBy(c) =>
            \A b \in ClientIds \ {c} :
               /\ requests'[b] = requests[b]
               /\ b \in DOMAIN blocked' <=> b \in DOMAIN blocked
               /\ b \in DOMAIN blocked => blocked'[b] = blocked[b] ]_vars

\* C27 witness: the last call was a denial that created a block while another
\* client held a block entry and a window with a stale timestamp, both still
\* in place
C27_Witness ==
    /\ log # <<>>
    /\ Last(log).path = "blocked_for"
    /\ Last(log).time = now
    /\ \E b \in ClientIds \ {Last(log).client} :
          /\ b \in DOMAIN blocked
          /\ \E i \in 1..Len(requests[b]) : requests[b][i] <= now - window_seconds

(***************************************************************************)
(* Correlation ids of the assembled application (Spec)                     *)
(***************************************************************************)
\* the header values that are UUIDs: those uuid4() draws; the inbound value
\* "c0de-in" of Inbound is text that is not a UUID
ValidUuids == {uuid4(1), uuid4(2)}

\* C24: the X-Correlation-ID header of every response is a valid UUID,
\* whatever the request carried: an inbound value is taken over only when it
\* is well formed, and a fresh one is generated otherwise.
C24_CorrelationHeaderIsUuid ==
    Answered => /\ "X-Correlation-ID" \in DOMAIN resp.headers
                /\ resp.headers["X-Correlation-ID"] \in ValidUuids

\* the SecureHTTPException that POST /users raised while the request now
\* answered was served (the table is as the failed call left it)
RaisedByCreateUser == create_user(req.payload, req.fault, uuid4(2)).out

\* POST /users was answered from a SecureHTTPException
SecureExceptionAnswered ==
    /\ Answered
    /\ req.method = "POST"
    /\ req.path = "/users"
    /\ req.fault # "escape"
    /\ resp.status \in {400, 500}

\* C25: an endpoint's SecureHTTPException is answered with its declared
\* status, with type, title, status, detail and correlation_id of the body
\* equal to the exception's, and with an X-Correlation-ID response header
\* equal to the exception's correlation id.
C25_SecureExceptionAnsweredAsDeclared ==
    SecureExceptionAnswered =>
        LET exc == RaisedByCreateUser
        IN /\ exc.kind = "SecureHTTPException"
           /\ resp.status = exc.status_code
           /\ resp.body.type = exc.error_type
           /\ resp.body.title = exc.title
           /\ resp.body.status = exc.status_code
           /\ resp.body.detail = exc.detail
           /\ resp.body.correlation_id = exc.correlation_id
           /\ resp.headers["X-Correlation-ID"] = exc.correlation_id

\* the body alone is as the exception declares; the header is left out
C25_BodyAsDeclared ==
    SecureExceptionAnswered =>
        LET exc == RaisedByCreateUser
        IN /\ exc.kind = "SecureHTTPException"
           /\ resp.status = exc.status_code
           /\ resp.body.type = exc.error_type
           /\ resp.body.title = exc.title
           /\ resp.body.status = exc.status_code
           /\ resp.body.detail = exc.detail
           /\ resp.body.correlation_id = exc.correlation_id

(***************************************************************************)
(* RateLimiter under clients that keep calling while the clock advances    *)
(***************************************************************************)
\* one request to /users through rate_limit_middleware; of the history only
\* the outcome of the latest call of each client is kept, with a note
\* whether the call before it was a denial
RepeatedRequest(origin) ==
    LET client_id == get_client_id(origin)
        r == is_allowed(client_id, now)
        m == rate_limit_middleware("/users", Url("/users"), RouteOk, r, uuid4(1))
        others(e) == e.client # client_id
        mine(e) == e.client = client_id
    IN /\ ~testing
       /\ requests' = r.requests
       /\ blocked' = r.blocked
       /\ log' = LET latest == [client |-> client_id, path |-> r.path,
                                after_denial |-> \E i \in 1..Len(log) :
                                                    /\ mine(log[i])
                                                    /\ log[i].path # "admitted"]
                 IN IF client_id = "unknown"
                    THEN Append(SelectSeq(log, others), latest)
                    ELSE <<latest>> \o SelectSeq(log, others)
       /\ req' = Request("GET", "/users", <<>>, <<>>, "none")
       /\ m.called
       /\ resp' = m.resp
       /\ UNCHANGED <<max_requests, window_seconds, block_duration, testing,
                      environment, dbVars, now, threads>>

\* the requests of client c
RequestsOf(c) ==
    \E origin \in Origins : get_client_id(origin) = c /\ RepeatedRequest(origin)

InitLive == InitLimiter /\ ~testing

NextLive ==
    \/ Tick
    \/ \E origin \in Origins : RepeatedRequest(origin)

\* the clock keeps advancing (up to MaxTime) and every client keeps calling
SpecLimiterLive ==
    /\ InitLive
    /\ [][NextLive]_vars
    /\ WF_vars(Tick)
    /\ \A c \in ClientIds : WF_vars(RequestsOf(c))

\* the latest call of c was denied, admitted
DeniedNow(c) ==
    \E i \in 1..Len(log) : log[i].client = c /\ log[i].path # "admitted"
AdmittedNow(c) ==
    \E i \in 1..Len(log) : log[i].client = c /\ log[i].path = "admitted"

\* C28: no client is denied forever: when the clock keeps advancing and the
\* client keeps calling, during blocks too, a client whose latest call was
\* denied is admitted again (the clock of the model stops at MaxTime, so the
\* denial is taken with window_seconds + block_duration of time still to run).
C28_NoClientDeniedForever ==
    \A c \in ClientIds :
       (DeniedNow(c) /\ now + window_seconds + block_duration <= MaxTime)
          ~> AdmittedNow(c)

\* C28 witness: a client was admitted, into a window holding this call
\* alone, by the call that followed a denial of its own
C28_Witness ==
    \E i \in 1..Len(log) :
       /\ log[i].path = "admitted"
       /\ log[i].after_denial
       /\ requests[log[i].client] = <<now>>
       /\ now > 0

(***************************************************************************)
(* Chore cadences (Spec)                                                   *)
(***************************************************************************)
\* C29: a POST /chores whose body passes the ChoreCreate validators, the
\* cadence check among them, is never answered 400 for an invalid cadence.
C29_ValidatedCadenceAccepted ==
    (Answered /\ req.method = "POST" /\ req.path = "/chores"
              /\ ChoreCreate(req.payload) # <<>>)
        => ~(/\ resp.status = 400
             /\ resp.body.detail = "Invalid cadence. Must be one of: "
                                   \o "['daily', 'weekly', 'monthly', 'yearly']")

(***************************************************************************)
(* Status updates of assignments (SpecAssignments)                         *)
(***************************************************************************)
\* this step answers PUT /assignments/{id} with a body AssignmentUpdate accepts
PutAssignment(id) ==
    /\ req'.method = "PUT"
    /\ req'.path = "/assignments/" \o ToString(id)
    /\ AssignmentUpdate(req'.payload) # <<>>

\* C30: an update of an assignment stores the status asked for, or OVERDUE
\* when due_at < now and the status asked for is not COMPLETED; every
\* COMPLETED assignment has completed_at set; an update of an unknown id is
\* answered 404 and changes nothing.
C30_StatusUpdateRules ==
    [][ /\ \A id \in 1..MaxId :
             PutAssignment(id) =>
               IF id \in DOMAIN assignments
               THEN LET stored == IF assignments[id].due_at < now
                                     /\ req'.payload.status # "completed"
                                  THEN "overdue" ELSE req'.payload.status
                    IN /\ resp'.status = 200
                       /\ DOMAIN assignments' = DOMAIN assignments
                       /\ assignments'[id].status = stored
                       /\ resp'.body.status = stored
                       /\ stored = "completed" => assignments'[id].completed_at = <<now>>
                       /\ \A a \in DOMAIN assignments \ {id} :
                             assignments'[a] = assignments[a]
               ELSE /\ resp'.status = 404
                    /\ resp'.body.detail = "Assignment not found"
                    /\ assignments' = assignments
                    /\ users' = users
                    /\ chores' = chores
        /\ \A a \in DOMAIN assignments' :
             assignments'[a].status = "completed"
                => assignments'[a].completed_at # <<>> ]_vars

\* C30 witness: an update asking for a status other than COMPLETED, of an
\* assignment past its due date and never completed, stored OVERDUE
C30_Witness ==
    /\ req.method = "PUT"
    /\ resp.status = 200
    /\ req.payload.status \in {"pending", "in_progress"}
    /\ resp.body.status = "overdue"
    /\ assignments[resp.body.id].status = "overdue"
    /\ assignments[resp.body.id].due_at < now
    /\ assignments[resp.body.id].completed_at = <<>>
====
